---------------------------- MODULE Spec2Model ----------------------------
(***************************************************************************)
(* Model of src/scripts/initial_data.py: the script that creates the       *)
(* "instructor" group, the superuser and the user accounts whose emails    *)
(* are read from one column of a list of CSV files.                        *)
(*                                                                         *)
(* One invocation of run() is modelled as a sequential state machine.      *)
(* The store (Django's user and group tables), the process environment     *)
(* and the file system are the environment: the store is part of the       *)
(* state, the environment variables, the existence of the paths and the    *)
(* text of the files are inputs read by the step that reads them in the    *)
(* code.  The debug flag -d only adds prints to stdout; stdout is not      *)
(* modelled, so -d is parsed and otherwise has no effect.                  *)
(*                                                                         *)
(* Spec is the whole of run(); SpecExtract is get_column_value_list() and  *)
(* SpecProvision is create_users(), each called on its own with its        *)
(* arguments drawn from bounded sets.                                      *)
(***************************************************************************)
EXTENDS Integers, Sequences, FiniteSets, TLC

(***************************************************************************)
(* Bounds                                                                  *)
(***************************************************************************)
\* rows read from the files in one run
MaxRows == 4
\* words of the argument string
MaxArgs == 2
\* files handed to get_column_value_list when it is called on its own
MaxFiles == 2
\* emails handed to create_users when it is called on its own
MaxEmails == 3

(***************************************************************************)
(* Program constants and input alphabets                                   *)
(***************************************************************************)
\* Python's None
NoneVal == "<None>"

\* password = 'changethepassword'
DefaultPassword == "changethepassword"

\* email_column_name = 'email'
DefaultColumn == "email"

\* the name of the group of step 1
InstructorGroup == "instructor"

\* user.name = 'User Name'
DemoName == "User Name"

\* the delimiter given to csv.reader
ReaderDelimiter == ","

\* the paths that may be named on the command line
Paths == {"f1", "f2"}

\* the words an argument string is made of (after shlex.split)
ArgTokens == {"-d", "-i", "-e", "-p", "-x", "id"} \cup Paths

\* the cell values of the rows of a comma separated export
Cells == {"email", "a@x.com", "#REF!", "#VALUE"}

\* the rows of a comma separated export: no, one or two cells
CommaRows == {<<>>} \cup {<<c>> : c \in Cells} \cup (Cells \X Cells)

\* the rows of a semicolon separated export
SemiRows == {<<"email">>, <<"a@x.com">>, <<"email", "a@x.com">>}

\* the delimiters csv.Sniffer may infer
Delimiters == {",", ";"}

\* the column names get_column_value_list is called with on its own
ColumnNames == {"email", "a@x.com"}

\* the emails create_users is called with on its own
Emails == {"a@x.com", "b@x.com"}

\* the passwords create_users is called with on its own
Passwords == {"changethepassword", "secret"}

\* values of the environment variable SUPERUSER_NAME
SuperuserNames == {NoneVal, "", "a@x.com"}

\* values of the environment variable SUPERUSER_PASSWORD
SuperuserPasswords == {"supw"}

(***************************************************************************)
(* Sequences                                                               *)
(***************************************************************************)
Range(s) == {s[i] : i \in 1..Len(s)}

SeqsUpTo(S, n) == UNION {[1..k -> S] : k \in 0..n}

\* the argument tuples run() may be called with: none, or one argument string
ScriptArgs == {<<>>} \cup {<<argv>> : argv \in SeqsUpTo(ArgTokens, MaxArgs)}

\* Python's list.index: zero-based position of the first occurrence
ListIndex(s, x) == (CHOOSE i \in 1..Len(s) : s[i] = x /\ \A j \in 1..(i-1) : s[j] # x) - 1

\* [x for x in s if x not in drop]
RECURSIVE ListWithout(_, _)
ListWithout(s, drop) ==
  IF s = <<>> THEN <<>>
  ELSE IF Head(s) \in drop THEN ListWithout(Tail(s), drop)
       ELSE <<Head(s)>> \o ListWithout(Tail(s), drop)

(***************************************************************************)
(* Text of the files: a line is a sequence of pieces of text (a cell value *)
(* or a delimiter character); csv.reader splits it into fields.            *)
(***************************************************************************)
\* the line a spreadsheet export writes for a row of cells
RECURSIVE EncodeRow(_, _)
EncodeRow(cells, delim) ==
  IF cells = <<>> THEN <<>>
  ELSE IF Len(cells) = 1 THEN <<cells[1]>>
       ELSE <<cells[1], delim>> \o EncodeRow(Tail(cells), delim)

\* the lines of a comma separated export
CommaLines == {EncodeRow(r, ",") : r \in CommaRows}

\* the lines of a semicolon separated export
SemiLines == {EncodeRow(r, ";") : r \in SemiRows}

\* the lines a file of the given inferred delimiter may hold
LinesOf(delim) == IF delim = "," THEN CommaLines ELSE SemiLines

AllLines == CommaLines \cup SemiLines

\* csv.reader(file_in, dialect=dialect, delimiter=str(',')): the fields of
\* one line, split at the delimiter handed to the reader
RECURSIVE SplitLine(_, _, _)
SplitLine(line, delim, field) ==
  IF line = <<>> THEN <<field>>
  ELSE IF Head(line) = delim
       THEN <<field>> \o SplitLine(Tail(line), delim, "")
       ELSE SplitLine(Tail(line), delim, field \o Head(line))

csv_reader(line) == IF line = <<>> THEN <<>> ELSE SplitLine(line, ReaderDelimiter, "")

(***************************************************************************)
(* State                                                                   *)
(***************************************************************************)
VARIABLES
  pc,                 \* position in run()
  exit_code,          \* -1 while running, else the exit status of the process
  script_args,        \* the arguments run() was called with
  make_instructors,   \* option -i
  email_column_name,  \* option -e
  password,           \* option -p
  args,               \* positional arguments returned by getopt
  filenames,          \* working set of paths
  groups,             \* store: the rows of the Group table, by name
  users,              \* store: email -> account
  nsalt,              \* store: number of password hashes made so far
  group,              \* local variable group of run()
  file_idx,           \* number of files taken from filenames by the loop
  dialect,            \* delimiter inferred by the sniffer for the open file
  rows_read,          \* rows read so far in this run (bounds the model)
  line_number,
  data,               \* fields of the row read last
  header_detected,
  col_idx,
  result,
  stderr,             \* diagnostics printed to sys.stderr
  emails,             \* list handed to create_users
  email_idx           \* number of emails create_users has processed

vars == <<pc, exit_code, script_args, make_instructors, email_column_name, password, args,
          filenames, groups, users, nsalt, group, file_idx, dialect,
          rows_read, line_number, data, header_detected, col_idx, result, stderr, emails,
          email_idx>>

optvars == <<make_instructors, email_column_name, password, args>>
storevars == <<groups, users, nsalt>>
scanvars == <<file_idx, dialect, rows_read, line_number, data, header_detected, col_idx, result, stderr>>
provvars == <<emails, email_idx>>


(***************************************************************************)
(* The store: Django's Group table and the user model                      *)
(***************************************************************************)
NoUsers == [e \in {} |-> NoneVal]

\* make_password: the hash depends on the raw password and on a fresh salt
MakePassword(raw, salt) == [raw |-> raw, salt |-> salt]

\* an account that was in the store before the script ran
OldAccount(member) ==
  [name |-> "Old Name", password |-> MakePassword("oldpw", 0),
   is_superuser |-> FALSE,
   groups |-> IF member THEN {InstructorGroup} ELSE {}]

\* the stores the script may be started on
InitStores ==
  { [groups |-> <<>>, users |-> NoUsers],
    [groups |-> <<InstructorGroup>>, users |-> [e \in {"a@x.com"} |-> OldAccount(FALSE)]],
    [groups |-> <<InstructorGroup>>, users |-> [e \in {"a@x.com"} |-> OldAccount(TRUE)]] }

\* the stores create_users may be called on: a@x.com is absent, an older
\* account (member of the group or not) or a superuser
ProvisionStores ==
  { NoUsers,
    [e \in {"a@x.com"} |-> OldAccount(FALSE)],
    [e \in {"a@x.com"} |-> OldAccount(TRUE)],
    [e \in {"a@x.com"} |->
       [name |-> "", password |-> MakePassword("supw", 0),
        is_superuser |-> TRUE, groups |-> {InstructorGroup}]] }

\* the table users with the row of email replaced by (or extended with) u
PutUser(tbl, email, u) ==
  [e \in DOMAIN tbl \cup {email} |-> IF e = email THEN u ELSE tbl[e]]

\* get_user_model().objects.create_superuser(email=..., password=...)
CreateSuperuser(salt, pw) ==
  [name |-> "", password |-> MakePassword(pw, salt), is_superuser |-> TRUE,
   groups |-> {}]

\* SetsCredentials with the name and the password set on every account
SetsCredentialsAlways(created) == TRUE

\* `if created:` of create_users
SetsCredentials(created) == created

\* NeedsMembership with the group given to the accounts just created only
NeedsMembershipNewOnly(grp, user) == grp \notin user.groups /\ user.name = DemoName

\* `if group not in user.groups.all():` of create_users
NeedsMembership(grp, user) == grp \notin user.groups

\* one iteration of the loop of create_users, on the store st = [users, nsalt]
CreateUser(st, email, pw, grp) ==
  LET created == email \notin DOMAIN st.users
      found   == IF created
                 THEN [name |-> "", password |-> MakePassword("", 0),
                       is_superuser |-> FALSE, groups |-> {}]
                 ELSE st.users[email]
      user    == IF SetsCredentials(created)
                 THEN [found EXCEPT !.name = DemoName,
                                    !.password = MakePassword(pw, st.nsalt)]
                 ELSE found
      salt    == IF SetsCredentials(created) THEN st.nsalt + 1 ELSE st.nsalt
      joined  == IF grp # NoneVal /\ NeedsMembership(grp, user)
                 THEN [user EXCEPT !.groups = @ \cup {grp}]
                 ELSE user
  IN [users |-> PutUser(st.users, email, joined), nsalt |-> salt]

\* create_users(emails, password, group): the loop over the whole list
RECURSIVE CreateUsers(_, _, _, _)
CreateUsers(st, list, pw, grp) ==
  IF list = <<>> THEN st
  ELSE CreateUsers(CreateUser(st, Head(list), pw, grp), Tail(list), pw, grp)

(***************************************************************************)
(* Option parsing                                                          *)
(***************************************************************************)
\* words getopt takes for options: they start with a dash
OptionWords == {"-d", "-i", "-e", "-p", "-x"}

DefaultOptions ==
  [ok |-> TRUE, make_instructors |-> FALSE, email_column_name |-> DefaultColumn,
   password |-> DefaultPassword, args |-> <<>>]

\* GetOpt passing over what it cannot parse: an unknown flag is dropped and
\* a missing value leaves the default
RECURSIVE GetOptLenient(_, _)
GetOptLenient(argv, o) ==
  IF argv = <<>> THEN o
  ELSE LET a == Head(argv)
           rest == Tail(argv)
       IN IF a \notin OptionWords THEN [o EXCEPT !.args = argv]
          ELSE IF a = "-i" THEN GetOptLenient(rest, [o EXCEPT !.make_instructors = TRUE])
          ELSE IF a = "-e" /\ rest # <<>>
               THEN GetOptLenient(Tail(rest), [o EXCEPT !.email_column_name = Head(rest)])
          ELSE IF a = "-p" /\ rest # <<>>
               THEN GetOptLenient(Tail(rest), [o EXCEPT !.password = Head(rest)])
          ELSE GetOptLenient(rest, o)

\* getopt.getopt(argv, "de:ip:") and the loop that stores the option values
RECURSIVE GetOpt(_, _)
GetOpt(argv, o) ==
  IF argv = <<>> THEN o
  ELSE LET a == Head(argv)
           rest == Tail(argv)
       IN IF a \notin OptionWords THEN [o EXCEPT !.args = argv]
          ELSE IF a = "-d" THEN GetOpt(rest, o)
          ELSE IF a = "-i" THEN GetOpt(rest, [o EXCEPT !.make_instructors = TRUE])
          ELSE IF a = "-e"
               THEN IF rest = <<>> THEN [o EXCEPT !.ok = FALSE]
                    ELSE GetOpt(Tail(rest), [o EXCEPT !.email_column_name = Head(rest)])
          ELSE IF a = "-p"
               THEN IF rest = <<>> THEN [o EXCEPT !.ok = FALSE]
                    ELSE GetOpt(Tail(rest), [o EXCEPT !.password = Head(rest)])
          ELSE [o EXCEPT !.ok = FALSE]

(***************************************************************************)
(* Row classification of get_column_value_list                             *)
(***************************************************************************)
\* RowKind with the length of the row checked before its content
RowKindShapeFirst(detected, idx, row, column_name) ==
  IF ~detected
  THEN IF column_name \notin Range(row) THEN "skip" ELSE "header"
  ELSE IF idx >= Len(row) THEN "mismatch"
  ELSE IF "#REF!" \in Range(row) \/ "#VALUE" \in Range(row) THEN "corrupt"
  ELSE "value"

\* RowKind with the safety check looking for '#REF!' only
RowKindRefOnly(detected, idx, row, column_name) ==
  IF ~detected
  THEN IF column_name \notin Range(row) THEN "skip" ELSE "header"
  ELSE IF "#REF!" \in Range(row) THEN "corrupt"
  ELSE IF idx >= Len(row) THEN "mismatch"
  ELSE "value"

\* RowKind with the header test made on every row, found or not
RowKindRescan(detected, idx, row, column_name) ==
  IF column_name \in Range(row) THEN "header"
  ELSE IF ~detected THEN "skip"
  ELSE IF "#REF!" \in Range(row) \/ "#VALUE" \in Range(row) THEN "corrupt"
  ELSE IF idx >= Len(row) THEN "mismatch"
  ELSE "value"

\* RowKind with the safety check made before the header test
RowKindCheckFirst(detected, idx, row, column_name) ==
  IF "#REF!" \in Range(row) \/ "#VALUE" \in Range(row) THEN "corrupt"
  ELSE IF ~detected
  THEN IF column_name \notin Range(row) THEN "skip" ELSE "header"
  ELSE IF idx >= Len(row) THEN "mismatch"
  ELSE "value"

\* RowKind with a row that is too short ending the run like a corrupt one
RowKindShortIsFatal(detected, idx, row, column_name) ==
  IF ~detected
  THEN IF column_name \notin Range(row) THEN "skip" ELSE "header"
  ELSE IF "#REF!" \in Range(row) \/ "#VALUE" \in Range(row) THEN "corrupt"
  ELSE IF idx >= Len(row) THEN "corrupt"
  ELSE "value"

\* The decision the loop body takes for one row, in the order of its tests:
\*   "skip"     the header is not found yet and the row does not hold the name
\*   "header"   the header is not found yet and the row holds the name
\*   "corrupt"  '#REF!' in data or '#VALUE' in data
\*   "mismatch" col_idx >= len(data)
\*   "value"    data[col_idx] is appended
RowKind(detected, idx, row, column_name) ==
  IF ~detected
  THEN IF column_name \notin Range(row) THEN "skip" ELSE "header"
  ELSE IF "#REF!" \in Range(row) \/ "#VALUE" \in Range(row) THEN "corrupt"
  ELSE IF idx >= Len(row) THEN "mismatch"
  ELSE "value"

\* RowStore with each value provisioned as soon as it is read
RowStoreStreaming(st, kind, row, idx, pw, grp) ==
  IF kind = "value" THEN CreateUser(st, row[idx + 1], pw, grp) ELSE st

\* The store st = [users, nsalt] after one row was processed: the loop body
\* of get_column_value_list only appends to result and calls nothing of the
\* store; the values reach create_users when the whole list is returned
RowStore(st, kind, row, idx, pw, grp) == st

\* not_present = [x for x in filenames if not os.path.exists(x)]
NotPresent(names, present) == {names[i] : i \in {j \in 1..Len(names) : names[j] \notin present}}

\* ExistingFiles with the missing paths reported but left in the list
ExistingFilesKeepsAll(names, present) == names

\* filenames after the missing paths were dropped
ExistingFiles(names, present) ==
  IF NotPresent(names, present) # {}
  THEN ListWithout(names, NotPresent(names, present))
  ELSE names

\* the group run hands to create_users
GroupArgument(instructors, grp) == grp

(***************************************************************************)
(* Initial state: the script has not been invoked yet                      *)
(***************************************************************************)
Init ==
  /\ pc = "idle"
  /\ exit_code = -1
  /\ script_args = <<>>
  /\ make_instructors = FALSE
  /\ email_column_name = DefaultColumn
  /\ password = DefaultPassword
  /\ args = <<>>
  /\ filenames = <<>>
  /\ \E s \in InitStores : groups = s.groups /\ users = s.users
  /\ nsalt = 1
  /\ group = NoneVal
  /\ file_idx = 0
  /\ dialect = ","
  /\ rows_read = 0
  /\ line_number = 0
  /\ data = <<>>
  /\ header_detected = FALSE
  /\ col_idx = -1
  /\ result = <<>>
  /\ stderr = <<>>
  /\ emails = <<>>
  /\ email_idx = 0

(***************************************************************************)
(* run()                                                                   *)
(***************************************************************************)
\* UsageError with an argument string that names no file refused as well
UsageErrorWithoutFiles(given) ==
  \/ Len(given) = 0
  \/ LET o == GetOpt(given[1], DefaultOptions) IN o.ok /\ o.args = <<>>

\* `if len(script_args) == 0:`
UsageError(given) == Len(given) = 0

\* run(*script_args) up to the end of option parsing: without an argument
\* string the usage is printed and the process exits with status 1; an
\* argument string getopt rejects ends the process with status 2
Run(given) ==
  /\ pc = "idle"
  /\ script_args' = given
  /\ IF UsageError(given)
     THEN /\ pc' = "exit"
          /\ exit_code' = 1
          /\ UNCHANGED <<optvars, filenames>>
     ELSE LET o == GetOpt(given[1], DefaultOptions)
          IN IF ~o.ok
             THEN /\ pc' = "exit"
                  /\ exit_code' = 2
                  /\ UNCHANGED <<optvars, filenames>>
             ELSE /\ pc' = "group"
                  /\ exit_code' = exit_code
                  /\ make_instructors' = o.make_instructors
                  /\ email_column_name' = o.email_column_name
                  /\ password' = o.password
                  /\ args' = o.args
                  /\ filenames' = o.args
  /\ UNCHANGED <<storevars, group, scanvars, provvars>>

\* `Group.objects.filter(name=...).first()`: the first row of that name, or
\* None
FilterFirst(tbl, name) ==
  IF \E i \in 1..Len(tbl) : tbl[i] = name THEN name ELSE NoneVal

\* a group row saved in every run
CreatesGroupAlways(found) == TRUE

\* `if not group:`
CreatesGroup(found) == found = NoneVal

\* step 1: the instructor group is looked up and created if there is none
EnsureGroup ==
  /\ pc = "group"
  /\ LET found == FilterFirst(groups, InstructorGroup) IN
       /\ groups' = IF CreatesGroup(found)
                    THEN Append(groups, InstructorGroup)
                    ELSE groups
       /\ group' = InstructorGroup
  /\ pc' = "superuser"
  /\ UNCHANGED <<exit_code, script_args, optvars, filenames, users, nsalt, scanvars, provvars>>

\* the test of step 2 without the lookup of the account
CreatesSuperuserAlways(suname, tbl) == suname # NoneVal /\ suname # ""

\* the test of step 2: the variable holds a non-empty value (the truth value
\* of a string) and the store has no account with that email
CreatesSuperuser(suname, tbl) ==
  suname # NoneVal /\ suname # "" /\ suname \notin DOMAIN tbl

\* step 2: the superuser named by the environment is created if it is new
EnsureSuperuser(suname, supw) ==
  /\ pc = "superuser"
  /\ IF CreatesSuperuser(suname, users)
     THEN /\ users' = PutUser(users, suname,
                        [CreateSuperuser(nsalt, supw) EXCEPT !.groups = @ \cup {group}])
          /\ nsalt' = nsalt + 1
     ELSE UNCHANGED <<users, nsalt>>
  /\ pc' = "filter"
  /\ UNCHANGED <<exit_code, script_args, optvars, filenames, groups, group, scanvars, provvars>>

\* the paths that do not exist are dropped; with no path left run returns
FilterFiles(present) ==
  /\ pc = "filter"
  /\ filenames' = ExistingFiles(filenames, present)
  /\ IF filenames' = <<>>
     THEN pc' = "done" /\ exit_code' = 0
     ELSE pc' = "open" /\ exit_code' = exit_code
  /\ UNCHANGED <<script_args, optvars, storevars, group, scanvars, provvars>>

(***************************************************************************)
(* get_column_value_list()                                                 *)
(***************************************************************************)
\* `for file_name in filenames`: at the start, or when the rows of the open
\* file are exhausted, the next file is opened and its dialect sniffed;
\* csv.Sniffer raises csv.Error when it cannot determine a delimiter, which
\* nothing catches
\* the line counter of the file before, carried over
StartLineNumberKept(prev) == prev

\* `line_number = 0` at the start of each file
StartLineNumber(prev) == 0

\* the header flag and the index of the file before, carried over
HeaderStateKept(detected, idx) == [header_detected |-> detected, col_idx |-> idx]

\* `header_detected = False` and `col_idx = -1` at the start of each file
HeaderState(detected, idx) == [header_detected |-> FALSE, col_idx |-> -1]

OpenFile(sniffed) ==
  /\ pc \in {"open", "scan"}
  /\ file_idx < Len(filenames)
  /\ file_idx' = file_idx + 1
  /\ IF sniffed \notin Delimiters
     THEN /\ pc' = "crash"
          /\ exit_code' = 1
          /\ UNCHANGED <<dialect, line_number, header_detected, col_idx>>
     ELSE /\ pc' = "scan"
          /\ exit_code' = exit_code
          /\ dialect' = sniffed
          /\ line_number' = StartLineNumber(line_number)
          /\ LET fresh == HeaderState(header_detected, col_idx)
             IN /\ header_detected' = fresh.header_detected
                /\ col_idx' = fresh.col_idx
  /\ UNCHANGED <<script_args, optvars, filenames, storevars, group, rows_read, data, result, stderr, provvars>>

\* the value of a row put in front of the values of the earlier rows
PrependValue(res, row, idx) == <<row[idx + 1]>> \o res

\* `result.append(data[col_idx])`
AppendValue(res, row, idx) == Append(res, row[idx + 1])

\* one iteration of `for data in data_in`
ReadRow(line) ==
  /\ pc = "scan"
  /\ rows_read < MaxRows
  /\ line \in LinesOf(dialect)
  /\ rows_read' = rows_read + 1
  /\ line_number' = line_number + 1
  /\ data' = csv_reader(line)
  /\ LET kind == RowKind(header_detected, col_idx, data', email_column_name)
     IN /\ header_detected' = (header_detected \/ kind = "header")
        /\ col_idx' = IF kind = "header"
                      THEN ListIndex(data', email_column_name)
                      ELSE col_idx
        /\ stderr' = IF kind = "corrupt"
                     THEN Append(stderr, <<"incorrect", line_number'>>)
                     ELSE IF kind = "mismatch"
                     THEN Append(stderr, <<"mismatched", line_number'>>)
                     ELSE stderr
        /\ result' = IF kind = "value"
                     THEN AppendValue(result, data', col_idx)
                     ELSE result
        /\ pc' = IF kind = "corrupt" THEN "exit" ELSE pc
        /\ exit_code' = IF kind = "corrupt" THEN 1 ELSE exit_code
        /\ LET st == RowStore([users |-> users, nsalt |-> nsalt], kind, data',
                              col_idx, password, group)
           IN users' = st.users /\ nsalt' = st.nsalt
  /\ UNCHANGED <<script_args, optvars, filenames, groups, group, file_idx, dialect, provvars>>

\* the rows of the last file are exhausted: get_column_value_list returns
\* result (its locals are gone) and run hands the list to create_users
ReturnResult ==
  /\ pc = "scan"
  /\ file_idx = Len(filenames)
  /\ pc' = "create_users"
  /\ emails' = result
  /\ email_idx' = 0
  /\ dialect' = ","
  /\ line_number' = 0
  /\ data' = <<>>
  /\ header_detected' = FALSE
  /\ col_idx' = -1
  /\ UNCHANGED <<exit_code, script_args, optvars, filenames, storevars, group, file_idx, rows_read, result, stderr>>

(***************************************************************************)
(* create_users()                                                          *)
(***************************************************************************)
\* one iteration of `for email in emails`
CreateUserStep ==
  /\ pc = "create_users"
  /\ email_idx < Len(emails)
  /\ LET st == CreateUser([users |-> users, nsalt |-> nsalt], emails[email_idx + 1],
                          password, GroupArgument(make_instructors, group))
     IN /\ users' = st.users
        /\ nsalt' = st.nsalt
  /\ email_idx' = email_idx + 1
  /\ UNCHANGED <<pc, exit_code, script_args, optvars, filenames, groups, group, scanvars, emails>>

\* the list is exhausted: create_users and run return
CreateUsersReturn ==
  /\ pc = "create_users"
  /\ email_idx = Len(emails)
  /\ pc' = "done"
  /\ exit_code' = 0
  /\ UNCHANGED <<script_args, optvars, filenames, storevars, group, scanvars, provvars>>

Next ==
  \/ \E given \in ScriptArgs : Run(given)
  \/ EnsureGroup
  \/ \E suname \in SuperuserNames, supw \in SuperuserPasswords : EnsureSuperuser(suname, supw)
  \/ \E present \in SUBSET Paths : FilterFiles(present)
  \/ \E sniffed \in Delimiters \cup {"fail"} : OpenFile(sniffed)
  \/ \E line \in AllLines : ReadRow(line)
  \/ ReturnResult
  \/ CreateUserStep
  \/ CreateUsersReturn

Spec == Init /\ [][Next]_vars

(***************************************************************************)
(* get_column_value_list(filenames, column_name) called on its own         *)
(***************************************************************************)
ExtractInit ==
  /\ pc = "open"
  /\ exit_code = -1
  /\ script_args = <<>>
  /\ make_instructors = FALSE
  /\ email_column_name \in ColumnNames
  /\ password = DefaultPassword
  /\ args = <<>>
  /\ filenames \in SeqsUpTo(Paths, MaxFiles) \ {<<>>}
  /\ groups = <<>>
  /\ users = NoUsers
  /\ nsalt = 1
  /\ group = NoneVal
  /\ file_idx = 0
  /\ dialect = ","
  /\ rows_read = 0
  /\ line_number = 0
  /\ data = <<>>
  /\ header_detected = FALSE
  /\ col_idx = -1
  /\ result = <<>>
  /\ stderr = <<>>
  /\ emails = <<>>
  /\ email_idx = 0

ExtractNext ==
  \/ \E sniffed \in Delimiters \cup {"fail"} : OpenFile(sniffed)
  \/ \E line \in AllLines : ReadRow(line)
  \/ ReturnResult

SpecExtract == ExtractInit /\ [][ExtractNext]_vars

(***************************************************************************)
(* create_users(emails, password, group) called on its own                 *)
(***************************************************************************)
ProvisionInit ==
  /\ pc = "create_users"
  /\ exit_code = -1
  /\ script_args = <<>>
  /\ make_instructors = FALSE
  /\ email_column_name = DefaultColumn
  /\ password \in Passwords
  /\ args = <<>>
  /\ filenames = <<>>
  /\ groups = <<InstructorGroup>>
  /\ users \in ProvisionStores
  /\ nsalt = 1
  /\ group \in {NoneVal, InstructorGroup}
  /\ file_idx = 0
  /\ dialect = ","
  /\ rows_read = 0
  /\ line_number = 0
  /\ data = <<>>
  /\ header_detected = FALSE
  /\ col_idx = -1
  /\ result = <<>>
  /\ stderr = <<>>
  /\ emails \in SeqsUpTo(Emails, MaxEmails)
  /\ email_idx = 0

ProvisionNext ==
  \/ CreateUserStep
  \/ CreateUsersReturn

SpecProvision == ProvisionInit /\ [][ProvisionNext]_vars

(***************************************************************************)
(* Properties                                                              *)
(***************************************************************************)
\* the step is one iteration of the row loop; data' is the row it read
RowStep == pc = "scan" /\ line_number' = line_number + 1

\* one of the fields of the row is a corruption marker
HasMarker(row) == \E i \in 1..Len(row) : row[i] = "#REF!" \/ row[i] = "#VALUE"

\* one of the fields of the row is the column name
HasName(row) == \E i \in 1..Len(row) : row[i] = email_column_name

\* the run was ended by the safety check of get_column_value_list
CorruptionAbort ==
  /\ pc = "exit"
  /\ stderr # <<>>
  /\ stderr[Len(stderr)][1] = "incorrect"

\* C1: once the header of the current file is found, a row that has #REF! or
\* #VALUE as a field value ends the run with exit status 1 and appends
\* nothing, and after the exit the result never changes (no later row and no
\* later file is read).
C1_CorruptRowEndsRun ==
  [][ /\ (RowStep /\ header_detected /\ HasMarker(data'))
           => (pc' = "exit" /\ exit_code' = 1 /\ result' = result)
      /\ (pc = "exit" => (pc' = "exit" /\ result' = result)) ]_vars

\* a run ended by a marker row after values were collected, with a file of
\* the list still unread
C1_Witness ==
  /\ pc = "exit"
  /\ exit_code = 1
  /\ header_detected
  /\ HasMarker(data)
  /\ result # <<>>
  /\ file_idx < Len(filenames)

\* C3: the first row of a file that holds the column name fixes the column
\* index of the file at the position of the name and appends nothing; every
\* later row leaves the index as it is, and a later row without marker that
\* is long enough has its value at that index appended, also when the row
\* holds the column name.
C3_HeaderFixesIndex ==
  [][ RowStep =>
        /\ (~header_detected /\ HasName(data'))
             => /\ header_detected'
                /\ col_idx' \in 0..(Len(data') - 1)
                /\ data'[col_idx' + 1] = email_column_name
                /\ result' = result
        /\ header_detected
             => /\ header_detected'
                /\ col_idx' = col_idx
                /\ (~HasMarker(data') /\ Len(data') > col_idx)
                     => result' = Append(result, data'[col_idx + 1]) ]_vars

\* in the first file, a row after the header holds the column name at
\* another position than the header did, and its value at the fixed index
\* was appended
C3_Witness ==
  /\ pc = "scan"
  /\ file_idx = 1
  /\ header_detected
  /\ col_idx = 0
  /\ Len(data) = 2
  /\ data[1] # email_column_name
  /\ data[2] = email_column_name
  /\ result # <<>>
  /\ result[Len(result)] = data[1]

\* C4: a row read before the header of its file that does not hold the
\* column name is skipped whatever it holds: the result, the diagnostics,
\* the index and the position of the run are unchanged and the run goes on.
C4_RowsBeforeHeaderSkipped ==
  [][ (RowStep /\ ~header_detected /\ ~HasName(data'))
        => /\ result' = result
           /\ stderr' = stderr
           /\ pc' = "scan"
           /\ exit_code' = exit_code
           /\ ~header_detected'
           /\ col_idx' = col_idx ]_vars

\* a row with a corruption marker was read before the header and the scan
\* goes on with nothing printed
C4_Witness ==
  /\ pc = "scan"
  /\ line_number >= 1
  /\ ~header_detected
  /\ HasMarker(data)
  /\ stderr = <<>>
  /\ exit_code = -1

\* C5: a row after the header without marker whose field count is at most
\* the column index is skipped with a diagnostic naming its line: the result
\* and the index are unchanged and the scan goes on, so that a later row
\* that is long enough is still appended.
C5_ShortRowSkipped ==
  [][ RowStep =>
        /\ (header_detected /\ ~HasMarker(data') /\ Len(data') <= col_idx)
             => /\ result' = result
                /\ stderr' = Append(stderr, <<"mismatched", line_number'>>)
                /\ pc' = "scan"
                /\ exit_code' = exit_code
                /\ header_detected'
                /\ col_idx' = col_idx
        /\ (header_detected /\ ~HasMarker(data') /\ Len(data') > col_idx
             /\ stderr # <<>> /\ stderr[Len(stderr)][1] = "mismatched")
             => (Len(result') = Len(result) + 1 /\ pc' = "scan") ]_vars

\* in the first file the row after a skipped short row was appended
C5_Witness ==
  /\ pc = "scan"
  /\ file_idx = 1
  /\ header_detected
  /\ Len(stderr) = 1
  /\ stderr[1][1] = "mismatched"
  /\ line_number = stderr[1][2] + 1
  /\ Len(result) = 1
  /\ result[1] = data[col_idx + 1]


\* C2: in a run without -i no step of create_users adds an account to the
\* group "instructor": a new account is created outside the group and the
\* membership of an existing account is unchanged.
C2_InstructorsOnlyWithToggle ==
  [][ (pc = "create_users" /\ ~make_instructors)
        => \A e \in DOMAIN users' :
             IF e \in DOMAIN users
             THEN users'[e].groups = users[e].groups
             ELSE InstructorGroup \notin users'[e].groups ]_vars

\* C6: when create_users has returned, calling it again with the same list,
\* password and group on the store it left changes nothing: no account is
\* created, no password hashed and no membership added.
C6_SecondCallChangesNothing ==
  pc = "done"
    => CreateUsers([users |-> users, nsalt |-> nsalt], emails, password, group)
         = [users |-> users, nsalt |-> nsalt]

\* create_users has returned for a list that holds the same email twice and
\* an email that was new, with a group
C6_Witness ==
  /\ pc = "done"
  /\ group = InstructorGroup
  /\ Len(emails) = 3
  /\ emails[1] = emails[3]
  /\ emails[1] # emails[2]
  /\ nsalt > 1

\* C7: one iteration of create_users leaves the name, the password and the
\* superuser flag of every account that existed before it unchanged, changes
\* no other account than the one of its email, and gives an account it
\* creates the demo name and the supplied password.
C7_ExistingAccountsKeepCredentials ==
  [][ (pc = "create_users" /\ email_idx' = email_idx + 1)
        => LET e == emails[email_idx + 1]
           IN /\ DOMAIN users' = DOMAIN users \cup {e}
              /\ \A x \in DOMAIN users :
                    /\ users'[x].name = users[x].name
                    /\ users'[x].password = users[x].password
                    /\ users'[x].is_superuser = users[x].is_superuser
                    /\ (x # e => users'[x] = users[x])
              /\ e \notin DOMAIN users
                    => /\ users'[e].name = DemoName
                       /\ users'[e].password.raw = password ]_vars

\* the email of a superuser account was processed twice, with a group
C7_Witness ==
  /\ email_idx >= 2
  /\ emails[1] = emails[2]
  /\ group = InstructorGroup
  /\ emails[1] \in DOMAIN users
  /\ users[emails[1]].is_superuser
  /\ users[emails[1]].name = ""
  /\ users[emails[1]].password.raw = "supw"

\* C8 as stated: when the run is ended by a corruption marker, every value
\* collected from the earlier rows and files has an account in the store.
C8_EarlierValuesProvisionedAtAbort ==
  CorruptionAbort => \A i \in 1..Len(result) : result[i] \in DOMAIN users

\* C8 as amended: when the run is ended by a corruption marker, the exit
\* status is 1 and create_users has not been called: no list was handed to
\* it, it processed no email, and no value collected from the earlier rows
\* and files has an account made by it.
C8_NothingProvisionedAtAbort ==
  CorruptionAbort
    => /\ exit_code = 1
       /\ emails = <<>>
       /\ email_idx = 0
       /\ \A i \in 1..Len(result) :
             result[i] \in DOMAIN users => users[result[i]].name # DemoName

\* the run was ended by row 3 of a file whose row 2 gave the value a@x.com,
\* and the store has no account a@x.com
C8_Witness ==
  /\ CorruptionAbort
  /\ file_idx = 1
  /\ line_number = 3
  /\ Len(data) = 2
  /\ data[1] = "#REF!"
  /\ result = <<"a@x.com">>
  /\ "a@x.com" \notin DOMAIN users

\* C9 as stated: a run that was given no file path (no argument string, or
\* an argument string without positional argument that getopt accepts) has
\* exited with status 1.
C9_NoFilesIsUsageError ==
  (pc # "idle" /\ args = <<>> /\ exit_code # 2) => (pc = "exit" /\ exit_code = 1)

\* C9 as amended: a call without argument string exits with status 1 and
\* leaves the store as it is; a call with an argument string either fails
\* in option parsing (status 2) or goes on to the group step, also when the
\* string names no file, and such a run then returns at the file filter
\* with status 0 and the extractor and the provisioner not called.
C9_OnlyMissingArgumentStringIsUsageError ==
  [][ /\ (pc = "idle" /\ script_args' = <<>>)
           => (pc' = "exit" /\ exit_code' = 1 /\ UNCHANGED <<storevars, group>>)
      /\ (pc = "idle" /\ script_args' # <<>>)
           => \/ pc' = "exit" /\ exit_code' = 2 /\ UNCHANGED <<storevars, group>>
              \/ pc' = "group" /\ exit_code' = -1
      /\ (pc = "filter" /\ args = <<>>)
           => (pc' = "done" /\ exit_code' = 0
               /\ UNCHANGED <<storevars, scanvars, provvars>>) ]_vars

\* a run whose argument string held only the flag -i has made the group and
\* returned with status 0
C9_Witness ==
  /\ pc = "done"
  /\ exit_code = 0
  /\ script_args = <<(<<"-i">>)>>
  /\ args = <<>>
  /\ InstructorGroup \in Range(groups)
  /\ emails = <<>>

\* C10: the file filter leaves in filenames the paths that exist, in the
\* order they were given; with no path left run returns with status 0 and
\* the store, the result and the list of create_users untouched, otherwise
\* it goes on to open the first path left; after run has returned nothing
\* changes.
C10_MissingFilesDropped ==
  [][ /\ \A present \in SUBSET Paths :
            FilterFiles(present)
              => /\ filenames' = SelectSeq(args, LAMBDA x : x \in present)
                 /\ filenames' = <<>>
                      => /\ pc' = "done"
                         /\ exit_code' = 0
                         /\ UNCHANGED <<storevars, scanvars, provvars>>
                 /\ filenames' # <<>>
                      => (pc' = "open" /\ exit_code' = -1 /\ file_idx' = 0)
      /\ (pc = "done" => UNCHANGED <<pc, storevars, result, emails>>) ]_vars

\* of two paths given the first was missing and the second is being read
C10_Witness ==
  /\ pc = "scan"
  /\ Len(args) = 2
  /\ args[1] # args[2]
  /\ filenames = <<args[2]>>
  /\ file_idx = 1
  /\ line_number >= 1

\* C11: when create_users has returned, every email of its list has an
\* account in the store, and when a group was supplied every one of these
\* accounts is a member of it, whether the call created the account or
\* found it.
C11_AccountsAndMembershipEnsured ==
  (pc = "done" /\ email_idx = Len(emails))
    => \A i \in 1..Len(emails) :
         /\ emails[i] \in DOMAIN users
         /\ group # NoneVal => group \in users[emails[i]].groups

\* create_users has returned for a list with an email it created and the
\* email of an older account, which is now a member of the group supplied
C11_Witness ==
  /\ pc = "done"
  /\ group = InstructorGroup
  /\ \E i, j \in 1..Len(emails) :
        /\ users[emails[i]].name = "Old Name"
        /\ InstructorGroup \in users[emails[i]].groups
        /\ users[emails[j]].name = DemoName
        /\ users[emails[j]].password.salt >= 1


(***************************************************************************)
(* C12: the superuser step                                                 *)
(***************************************************************************)
\* the superuser step has created the superuser account of suname
SuperuserCreated(suname) ==
  /\ suname \notin DOMAIN users
  /\ suname \in DOMAIN users'
  /\ users'[suname].is_superuser

\* C12 as stated: the superuser step creates a superuser account exactly when
\* the variable is set (to any value, the empty string included) and the store
\* has no account with that email.
C12_CreatedIffVariableSet ==
  [][\A suname \in SuperuserNames, supw \in SuperuserPasswords :
       EnsureSuperuser(suname, supw)
         => (SuperuserCreated(suname)
               <=> (suname # NoneVal /\ suname \notin DOMAIN users))]_vars

\* C12: the superuser step creates a superuser account exactly when the
\* variable is set to a non-empty value and the store has no account with that
\* email; the created account is a member of the instructor group and no
\* other account changes; when creation is skipped no account and no
\* membership changes; the groups of the store are left alone either way.
C12_SuperuserCreatedIffNamedAndNew ==
  [][\A suname \in SuperuserNames, supw \in SuperuserPasswords :
       EnsureSuperuser(suname, supw)
         => /\ SuperuserCreated(suname)
                 <=> (suname \notin {NoneVal, ""} /\ suname \notin DOMAIN users)
            /\ SuperuserCreated(suname)
                 => /\ InstructorGroup \in users'[suname].groups
                    /\ DOMAIN users' = DOMAIN users \cup {suname}
                    /\ \A e \in DOMAIN users : users'[e] = users[e]
            /\ ~SuperuserCreated(suname) => users' = users
            /\ groups' = groups]_vars

C12_Witness ==
  /\ pc = "filter"
  /\ \E e \in DOMAIN users :
        /\ users[e].is_superuser
        /\ users[e].groups = {InstructorGroup}
        /\ users[e].password.raw \in SuperuserPasswords

(***************************************************************************)
(* C13: the instructor group                                               *)
(***************************************************************************)
\* the number of rows of the Group table named "instructor"
InstructorRows(tbl) == Cardinality({i \in 1..Len(tbl) : tbl[i] = InstructorGroup})

\* the run has an argument string that getopt accepted and step 1 is over
PastGroupStep ==
  /\ Len(script_args) > 0
  /\ GetOpt(script_args[1], DefaultOptions).ok
  /\ pc \notin {"idle", "group"}

\* C13: started on a store with at most one group named "instructor", the
\* store never holds more than one; once a run is past flag parsing and its
\* group step the store holds exactly one; the Group table changes only in
\* the group step of a run that found no such group.
C13_OneInstructorGroup ==
  [][/\ InstructorRows(groups) <= 1 => InstructorRows(groups') <= 1
     /\ PastGroupStep' => InstructorRows(groups') = 1
     /\ groups' # groups => pc = "group" /\ InstructorRows(groups) = 0]_vars

C13_Witness ==
  /\ PastGroupStep
  /\ pc = "superuser"
  /\ users = NoUsers
  /\ groups = <<InstructorGroup>>

(***************************************************************************)
(* C14: the returned list                                                  *)
(***************************************************************************)
\* C14: the files are taken one after the other in the order given; every
\* row read after the header of its file that holds no corruption marker and
\* is long enough for the resolved index adds its value at that index to the
\* end of the list, and nothing else changes the list; the list handed over
\* when the last file is exhausted is that list.  The list is thus the
\* concatenation of the values in file order and row order.
C14_ResultIsConcatenation ==
  [][/\ file_idx' \in {file_idx, file_idx + 1}
     /\ rows_read' = rows_read + 1
          => result' = IF /\ header_detected
                          /\ ~HasMarker(data')
                          /\ Len(data') > col_idx
                       THEN result \o <<data'[col_idx + 1]>>
                       ELSE result
     /\ rows_read' = rows_read => result' = result
     /\ pc' = "create_users"
          => file_idx = Len(filenames) /\ emails' = result]_vars

\* two files of a header and a value row each, the column in a different
\* place: the list holds the value of the first file, then that of the second
C14_Witness ==
  /\ pc = "scan"
  /\ email_column_name = "email"
  /\ file_idx = 2
  /\ rows_read = 4
  /\ line_number = 2
  /\ col_idx = 1
  /\ data = <<"email", "a@x.com">>
  /\ result = <<"email", "a@x.com">>
  /\ stderr = <<>>

(***************************************************************************)
(* C15: header detection per file                                          *)
(***************************************************************************)
\* C15: each file starts with the header flag down and no column index,
\* whatever the file before resolved; as long as no row of the file holds the
\* column name, its rows add no value, write no diagnostic and end nothing,
\* also when values of earlier files are in the list.
C15_HeaderDetectionPerFile ==
  [][/\ (file_idx' = file_idx + 1 /\ pc' = "scan")
          => ~header_detected' /\ col_idx' = -1
     /\ (rows_read' = rows_read + 1 /\ ~header_detected /\ ~HasName(data'))
          => /\ ~header_detected' /\ col_idx' = -1
             /\ result' = result /\ stderr' = stderr
             /\ pc' = "scan" /\ exit_code' = exit_code]_vars

\* the first file gave a value; the second has no header so far and its row
\* with a corruption marker is passed over
C15_Witness ==
  /\ pc = "scan"
  /\ file_idx = 2
  /\ line_number >= 1
  /\ ~header_detected
  /\ HasMarker(data)
  /\ result # <<>>

(***************************************************************************)
(* C16: flags that cannot be parsed                                        *)
(***************************************************************************)
\* the words of argv up to the first file name hold a flag that is not one of
\* -d -i -e -p, or end with -e or -p; the word after -e or -p is its value
RECURSIVE BadFlags(_)
BadFlags(argv) ==
  IF argv = <<>> THEN FALSE
  ELSE IF Head(argv) \in {"-d", "-i"} THEN BadFlags(Tail(argv))
  ELSE IF Head(argv) \in {"-e", "-p"}
       THEN Len(argv) = 1 \/ BadFlags(Tail(Tail(argv)))
  ELSE Head(argv) = "-x"

\* C16: a run whose flags cannot be parsed (an unknown flag, or -e or -p
\* without a value) ends with exit status 2, and no step of it changes the
\* Group table, an account or a membership.
C16_BadFlagsExitBeforeStore ==
  [][(Len(script_args') > 0 /\ BadFlags(script_args'[1]))
       => /\ pc' = "exit"
          /\ exit_code' = 2
          /\ groups' = groups
          /\ users' = users
          /\ nsalt' = nsalt]_vars

\* -i is read, -p has no value; the store had no group and has none
C16_Witness ==
  /\ pc = "exit"
  /\ exit_code = 2
  /\ script_args = << <<"-i", "-p">> >>
  /\ groups = <<>>
  /\ users = NoUsers

(***************************************************************************)
(* C17: corruption check before shape check                                *)
(***************************************************************************)
\* C17: a row read after the header that holds #REF! or #VALUE as a field
\* and has too few fields for the resolved index ends the run with exit
\* status 1 and the diagnostic of incorrect data; it is not reported as a
\* mismatched row and the scan does not go on.
C17_CorruptionBeforeShape ==
  [][(/\ rows_read' = rows_read + 1
      /\ header_detected
      /\ HasMarker(data')
      /\ Len(data') <= col_idx)
       => /\ pc' = "exit"
          /\ exit_code' = 1
          /\ stderr' = Append(stderr, <<"incorrect", line_number + 1>>)
          /\ result' = result]_vars

C17_Witness ==
  /\ pc = "exit"
  /\ exit_code = 1
  /\ header_detected
  /\ col_idx = 1
  /\ Len(data) = 1
  /\ HasMarker(data)
  /\ stderr # <<>>
  /\ stderr[Len(stderr)][1] = "incorrect"

(***************************************************************************)
(* C18: the delimiter the rows are split with                              *)
(***************************************************************************)
\* the fields of a line split at the delimiter inferred for its file
FieldsByDialect(line, delim) ==
  IF line = <<>> THEN <<>> ELSE SplitLine(line, delim, "")

\* C18 as stated: every row is split into fields at the delimiter inferred
\* for its file, so that a file inferred to be semicolon separated is split on
\* semicolons and one inferred to be comma separated on commas.
C18_RowsSplitWithInferredDelimiter ==
  [][\A line \in AllLines :
       ReadRow(line) => data' = FieldsByDialect(line, dialect)]_vars

(***************************************************************************)
(* C19: the line numbers of the diagnostics                                *)
(***************************************************************************)
\* C19: the line counter is 0 when a file has been opened and grows by one
\* with every row read from it, whatever the row is; in the first file it is
\* the number of rows read so far; a diagnostic written for a row (incorrect
\* data or mismatched line) names the counter after that row, which is the
\* 1-based position of the row in its own file.
C19_LineNumberPerFile ==
  [][/\ (file_idx' = file_idx + 1 /\ pc' = "scan") => line_number' = 0
     /\ (file_idx' = 1 /\ pc' = "scan") => line_number' = rows_read'
     /\ rows_read' = rows_read + 1
          => /\ line_number' = line_number + 1
             /\ \/ stderr' = stderr
                \/ \E kind \in {"incorrect", "mismatched"} :
                      stderr' = Append(stderr, <<kind, line_number + 1>>)
             /\ (header_detected /\ (HasMarker(data') \/ Len(data') <= col_idx))
                  => stderr' # stderr]_vars

\* one row in the first file; the second file holds the header, a value and
\* a row with #REF!, which is reported as line 3 though it is the fourth row
\* read
C19_Witness ==
  /\ pc = "exit"
  /\ file_idx = 2
  /\ rows_read = 4
  /\ line_number = 3
  /\ email_column_name = "email"
  /\ col_idx = 0
  /\ result = <<"a@x.com">>
  /\ data = <<"#REF!", "a@x.com">>
  /\ stderr = << <<"incorrect", 3>> >>

(***************************************************************************)
(* C20: extraction and the store                                           *)
(***************************************************************************)
\* C20: no step of the extraction (opening a file, reading a row) changes an
\* account, a membership or the Group table; create_users is entered only
\* when the last file is exhausted, with the whole list; an extraction that
\* ends the run ends it with exit status 1 and nothing follows the exit.  The
\* accounts change only in the superuser step and in create_users, the Group
\* table only in the group step.
C20_ExtractionAllOrNothing ==
  [][/\ pc \in {"open", "scan"} /\ pc' # "create_users"
          => users' = users /\ nsalt' = nsalt /\ groups' = groups
     /\ (pc # "create_users" /\ pc' = "create_users")
          => /\ pc = "scan"
             /\ file_idx = Len(filenames)
             /\ emails' = result
             /\ users' = users /\ nsalt' = nsalt /\ groups' = groups
     /\ (pc \in {"open", "scan"} /\ pc' \in {"exit", "crash"}) => exit_code' = 1
     /\ pc # "exit"
     /\ users' # users => pc \in {"superuser", "create_users"}
     /\ groups' # groups => pc = "group"]_vars

\* the first file gave a@x.com, the second was ended by a corruption marker:
\* the run made the group and no account
C20_Witness ==
  /\ CorruptionAbort
  /\ exit_code = 1
  /\ file_idx = 2
  /\ result = <<"a@x.com">>
  /\ users = NoUsers
  /\ groups = <<InstructorGroup>>
  /\ emails = <<>>
=============================================================================
